---- MODULE Spec2Model ----
(***************************************************************************)
(* Model of src/TranscribirV2.py: create_srt_with_natural_breaks, the      *)
(* word-to-subtitle segmenter, with the aggregation of the recognizer's    *)
(* segments before it and the SRT serialization after it.                  *)
(*                                                                         *)
(* A text is a sequence of one-character strings, so that len() and        *)
(* str.strip() are computed as Python computes them.  Times are integers   *)
(* (one unit = one second); the thresholds are integers of the same unit.  *)
(* Python's None is the empty tuple <<>> and a time t held in a nullable   *)
(* variable is <<t>>.                                                      *)
(***************************************************************************)
EXTENDS Integers, Sequences, FiniteSets, TLC

(* ------------------------------ bounds --------------------------------- *)

\* Longest aggregated word list the inputs hold.
MaxWords == 3

\* Word timestamps: start <= end, both taken from TimeValues.
TimeValues == {0, 1, 2}

\* Raw word texts as the recognizer emits them: whitespace-only, plain,
\* padded and ending in strong punctuation.
WordTexts == { <<" ">>, <<"a">>, <<" ", "b", ".">> }

(* ------------------------------ texts ---------------------------------- *)

IsSpace(c) == c = " "

RECURSIVE lstrip(_)
lstrip(s) ==
    IF s = <<>> THEN <<>>
    ELSE IF IsSpace(Head(s)) THEN lstrip(Tail(s)) ELSE s

RECURSIVE rstrip(_)
rstrip(s) ==
    IF s = <<>> THEN <<>>
    ELSE IF IsSpace(s[Len(s)]) THEN rstrip(SubSeq(s, 1, Len(s) - 1)) ELSE s

\* str.strip()
strip(s) == rstrip(lstrip(s))

(* ------------------------------ inputs --------------------------------- *)

Words ==
    { [word |-> t, start |-> s, end |-> e] :
        t \in WordTexts, s \in TimeValues, e \in TimeValues }

TimedWords == { w \in Words : w.start <= w.end }

WordLists == UNION { [1..n -> TimedWords] : n \in 0..MaxWords }

\* A segment of the recognizer's result: with or without the "words" key.
SegWith(ws) == [has_words |-> TRUE, words |-> ws]
SegWithout == [has_words |-> FALSE, words |-> <<>>]

\* Results of one segment holding the whole word list.
OneSegmentResults == { <<SegWith(ws)>> : ws \in WordLists }

\* Results of zero to two segments, some without word-level data.
FewSegments ==
    { SegWithout, SegWith(<<>>),
      SegWith(<<[word |-> <<"a">>, start |-> 0, end |-> 1]>>),
      SegWith(<<[word |-> <<" ", "b", ".">>, start |-> 1, end |-> 2]>>) }

ManySegmentResults ==
    {<<>>} \cup { <<a>> : a \in FewSegments }
           \cup { <<a, b>> : a \in FewSegments, b \in FewSegments }

Results == OneSegmentResults \cup ManySegmentResults

\* Caller-supplied configuration.  Valid: max_chars > 0, max_duration > 0,
\* silence_threshold >= 0.  The last three are each invalid in one field.
ValidConfigs ==
    [max_chars : {1, 5}, max_duration : {1, 2}, silence_threshold : {1, 2}]

InvalidConfigs ==
    { [max_chars |-> 0, max_duration |-> 2, silence_threshold |-> 1],
      [max_chars |-> 5, max_duration |-> 0, silence_threshold |-> 1],
      [max_chars |-> 5, max_duration |-> 2, silence_threshold |-> -1] }

Configs == ValidConfigs \cup InvalidConfigs

\* Default of the punctuation_breaks parameter.
punctuation_breaks == {".", "!", "?"}

(* ------------------------------ state ---------------------------------- *)

VARIABLES
    result,             \* the recognizer's result: its "segments"
    max_chars, max_duration, silence_threshold,
    pc,                 \* position in create_srt_with_natural_breaks
    words_list,
    i,                  \* number of words the loop has processed
    subtitles,
    chunk_start_time, chunk_end_time, chunk_text,
    prev_word_end,
    printed,            \* the "no word timestamps" message was printed
    srt_file,           \* None while unwritten, else <<blocks>>
    returned,           \* "running", then the value handed to the caller
    chunk_first,        \* history: index of the open chunk's first word
    assigned,           \* history: <<first, last>> word index per subtitle
    closed_by           \* history: what appended each subtitle

vars == << result, max_chars, max_duration, silence_threshold, pc, words_list,
           i, subtitles, chunk_start_time, chunk_end_time, chunk_text,
           prev_word_end, printed, srt_file, returned, chunk_first, assigned,
           closed_by >>

None == <<>>

Init ==
    /\ result \in Results
    /\ \E c \in Configs :
         /\ max_chars = c.max_chars
         /\ max_duration = c.max_duration
         /\ silence_threshold = c.silence_threshold
    /\ pc = "aggregate"
    /\ words_list = <<>>
    /\ i = 0
    /\ subtitles = <<>>
    /\ chunk_start_time = None
    /\ chunk_end_time = None
    /\ chunk_text = <<>>
    /\ prev_word_end = 0
    /\ printed = FALSE
    /\ srt_file = None
    /\ returned = "running"
    /\ chunk_first = 0
    /\ assigned = <<>>
    /\ closed_by = <<>>

(* --------------------------- aggregation ------------------------------- *)

RECURSIVE Extend(_)
Extend(segs) ==
    IF segs = <<>> THEN <<>>
    ELSE (IF Head(segs).has_words THEN Head(segs).words ELSE <<>>)
         \o Extend(Tail(segs))

\* Mutant: no early return on an empty word list.
Aggregate_NoEarlyReturn ==
    /\ pc = "aggregate"
    /\ words_list' = Extend(result)
    /\ printed' = FALSE
    /\ returned' = "running"
    /\ pc' = IF words_list' = <<>> THEN "flush" ELSE "loop"
    /\ UNCHANGED << result, max_chars, max_duration, silence_threshold, i,
                    subtitles, chunk_start_time, chunk_end_time, chunk_text,
                    prev_word_end, srt_file, chunk_first, assigned, closed_by >>

\* Lines 62-82: unify the words; return after the message when there are none.
Aggregate ==
    /\ pc = "aggregate"
    /\ words_list' = Extend(result)
    /\ IF words_list' = <<>>
         THEN /\ printed' = TRUE
              /\ returned' = "None"
              /\ pc' = "done"
         ELSE /\ printed' = FALSE
              /\ returned' = "running"
              /\ pc' = "loop"
    /\ UNCHANGED << result, max_chars, max_duration, silence_threshold, i,
                    subtitles, chunk_start_time, chunk_end_time, chunk_text,
                    prev_word_end, srt_file, chunk_first, assigned, closed_by >>

(* ------------------------------ the loop ------------------------------- *)

w == words_list[i + 1]
trimmed_word == strip(w.word)
\* Mutant: the joining space is forgotten.
proposed_text_NoSpace == strip(chunk_text \o trimmed_word)

proposed_text == strip(chunk_text \o <<" ">> \o trimmed_word)
proposed_duration == w.end - chunk_start_time[1]
\* Mutant: the first character of the word is inspected.
last_char_First == IF trimmed_word # <<>> THEN trimmed_word[1] ELSE ""

last_char == IF trimmed_word # <<>> THEN trimmed_word[Len(trimmed_word)] ELSE ""

Subtitle == [start |-> chunk_start_time[1], end |-> chunk_end_time[1],
             text |-> strip(chunk_text)]

InLoop == pc = "loop" /\ i < Len(words_list)

Advance ==
    /\ i' = i + 1
    /\ prev_word_end' = w.end
    /\ pc' = IF i + 1 < Len(words_list) THEN "loop" ELSE "flush"
    /\ UNCHANGED << result, max_chars, max_duration, silence_threshold,
                    words_list, printed, srt_file, returned >>

\* Lines 91-96.
OpenChunk ==
    /\ InLoop
    /\ chunk_start_time = None
    /\ chunk_start_time' = <<w.start>>
    /\ chunk_end_time' = <<w.end>>
    /\ chunk_text' = trimmed_word
    /\ chunk_first' = i + 1
    /\ UNCHANGED << subtitles, assigned, closed_by >>
    /\ Advance

\* Mutant: the new chunk is made to start where the previous word ended.
CloseAndReopen_Contiguous(why) ==
    /\ subtitles' = Append(subtitles, Subtitle)
    /\ assigned' = Append(assigned, <<chunk_first, i>>)
    /\ closed_by' = Append(closed_by, why)
    /\ chunk_start_time' = <<prev_word_end>>
    /\ chunk_end_time' = <<w.end>>
    /\ chunk_text' = trimmed_word
    /\ chunk_first' = i + 1
    /\ Advance

\* Close the open chunk without the word and reopen at the word.
CloseAndReopen(why) ==
    /\ subtitles' = Append(subtitles, Subtitle)
    /\ assigned' = Append(assigned, <<chunk_first, i>>)
    /\ closed_by' = Append(closed_by, why)
    /\ chunk_start_time' = <<w.start>>
    /\ chunk_end_time' = <<w.end>>
    /\ chunk_text' = trimmed_word
    /\ chunk_first' = i + 1
    /\ Advance

\* Mutant: the open chunk's text is measured instead of the proposed text.
LengthOverflow_Current == Len(chunk_text) > max_chars

\* Mutant: the duration is measured up to the word's start.
DurationOverflow_ToStart == (w.start - chunk_start_time[1]) > max_duration

\* Mutant: a gap equal to the threshold is not a silence.
SilenceGap_Strict ==
    (w.start - prev_word_end) > silence_threshold /\ Len(chunk_text) > 0

LengthOverflow == Len(proposed_text) > max_chars
DurationOverflow == proposed_duration > max_duration
SilenceGap == (w.start - prev_word_end) >= silence_threshold /\ Len(chunk_text) > 0

\* Lines 103-113.
LengthCut ==
    /\ InLoop
    /\ chunk_start_time # None
    /\ LengthOverflow
    /\ CloseAndReopen("length")

\* Lines 116-124.
DurationCut ==
    /\ InLoop
    /\ chunk_start_time # None
    /\ ~LengthOverflow
    /\ DurationOverflow
    /\ CloseAndReopen("duration")

\* Lines 127-136.
SilenceCut ==
    /\ InLoop
    /\ chunk_start_time # None
    /\ ~LengthOverflow
    /\ ~DurationOverflow
    /\ SilenceGap
    /\ CloseAndReopen("silence")

\* Mutant: the last word of the input may close its chunk too.
PunctuationBreak_NoLastGuard == last_char \in punctuation_breaks

PunctuationBreak == last_char \in punctuation_breaks /\ i < Len(words_list) - 1

\* Lines 138-155.
Absorb ==
    /\ InLoop
    /\ chunk_start_time # None
    /\ ~LengthOverflow
    /\ ~DurationOverflow
    /\ ~SilenceGap
    /\ IF PunctuationBreak
         THEN /\ subtitles' =
                   Append(subtitles, [start |-> chunk_start_time[1],
                                      end |-> w.end,
                                      text |-> strip(proposed_text)])
              /\ assigned' = Append(assigned, <<chunk_first, i + 1>>)
              /\ closed_by' = Append(closed_by, "punctuation")
              /\ chunk_start_time' = None
              /\ chunk_end_time' = None
              /\ chunk_text' = <<>>
              /\ chunk_first' = 0
         ELSE /\ chunk_end_time' = <<w.end>>
              /\ chunk_text' = proposed_text
              /\ UNCHANGED << chunk_start_time, subtitles, assigned,
                              closed_by, chunk_first >>
    /\ Advance

ProcessWord == OpenChunk \/ LengthCut \/ DurationCut \/ SilenceCut \/ Absorb

(* --------------------------- flush and write --------------------------- *)

\* Lines 159-165.
FinalFlush ==
    /\ pc = "flush"
    /\ IF strip(chunk_text) # <<>>
         THEN /\ subtitles' = Append(subtitles, Subtitle)
              /\ assigned' = Append(assigned, <<chunk_first, i>>)
              /\ closed_by' = Append(closed_by, "flush")
         ELSE UNCHANGED << subtitles, assigned, closed_by >>
    /\ pc' = "write"
    /\ UNCHANGED << result, max_chars, max_duration, silence_threshold,
                    words_list, i, chunk_start_time, chunk_end_time,
                    chunk_text, prev_word_end, printed, srt_file, returned,
                    chunk_first >>

\* 'HH:MM:SS,mmm' as <<hours, minutes, secs, millis>>.  The times of the
\* model are whole seconds, so int(seconds) is seconds itself.
convert_seconds_to_srt_time(seconds) ==
    << seconds \div 3600, (seconds % 3600) \div 60, seconds % 60,
       (seconds - seconds) * 1000 >>

\* Lines 167-176.
WriteSrt ==
    /\ pc = "write"
    /\ srt_file' =
         << [k \in 1..Len(subtitles) |->
               [index |-> k,
                start_srt |-> convert_seconds_to_srt_time(subtitles[k].start),
                end_srt |-> convert_seconds_to_srt_time(subtitles[k].end),
                text |-> subtitles[k].text]] >>
    /\ returned' = "None"
    /\ pc' = "done"
    /\ UNCHANGED << result, max_chars, max_duration, silence_threshold,
                    words_list, i, subtitles, chunk_start_time, chunk_end_time,
                    chunk_text, prev_word_end, printed, chunk_first, assigned,
                    closed_by >>

Next == Aggregate \/ ProcessWord \/ FinalFlush \/ WriteSrt

Spec == Init /\ [][Next]_vars

(* ------------------------- notions of the claims ----------------------- *)

NumWords == Len(words_list)
Trimmed(k) == strip(words_list[k].word)

RECURSIVE JoinSp(_)
\* " ".join(texts)
JoinSp(texts) ==
    IF texts = <<>> THEN <<>>
    ELSE IF Len(texts) = 1 THEN texts[1]
    ELSE texts[1] \o <<" ">> \o JoinSp(Tail(texts))

TrimmedRun(a, b) == [k \in 1..(b - a + 1) |-> Trimmed(a + k - 1)]
ChunkTexts == [k \in 1..Len(subtitles) |-> subtitles[k].text]
Chunks == 1..Len(subtitles)
FirstOf(k) == assigned[k][1]
LastOf(k) == assigned[k][2]
ManyWords(k) == FirstOf(k) < LastOf(k)

Finished == pc = "done" /\ words_list # <<>>
AllWordsHaveText == \A k \in 1..NumWords : Trimmed(k) # <<>>
ValidConfig == max_chars > 0 /\ max_duration > 0 /\ silence_threshold >= 0
NonDecreasingStarts ==
    \A k \in 1..NumWords :
      k < NumWords => words_list[k].start <= words_list[k + 1].start
\* The segmenter's stated preconditions.
Preconditions == ValidConfig /\ NonDecreasingStarts
Gap(j) == words_list[j + 1].start - words_list[j].end
EndsInPunctuation(j) ==
    Trimmed(j) # <<>> /\ Trimmed(j)[Len(Trimmed(j))] \in punctuation_breaks

\* The emitted chunks are consecutive runs of words covering 1..NumWords.
RunsPartition ==
    /\ Len(assigned) = Len(subtitles)
    /\ Len(subtitles) >= 1
    /\ FirstOf(1) = 1
    /\ LastOf(Len(assigned)) = NumWords
    /\ \A k \in Chunks : FirstOf(k) <= LastOf(k)
    /\ \A k \in Chunks : k < Len(assigned) => FirstOf(k + 1) = LastOf(k) + 1

\* Each chunk's text is its words' trimmed texts joined by one space, and so
\* is the whole output.
TextsAreTheWords ==
    /\ \A k \in Chunks :
         subtitles[k].text = JoinSp(TrimmedRun(FirstOf(k), LastOf(k)))
    /\ JoinSp(ChunkTexts) = JoinSp(TrimmedRun(1, NumWords))

(* -------------------------------- C1 ----------------------------------- *)

\* C1 as stated: for every non-empty word sequence the emitted chunks
\* partition the words into consecutive runs and their texts joined by
\* single spaces equal the space-joined trimmed words (stated for calls
\* that meet the segmenter's preconditions).
C1_Original ==
    (Finished /\ Preconditions) => (RunsPartition /\ TextsAreTheWords)

\* C1 amended: the same, for word sequences in which every word has
\* non-empty trimmed text.
C1_Completeness ==
    (Finished /\ AllWordsHaveText) => (RunsPartition /\ TextsAreTheWords)

C1_Witness ==
    /\ Finished /\ AllWordsHaveText
    /\ NumWords = MaxWords
    /\ Len(subtitles) = 2
    /\ \E k \in Chunks : ManyWords(k)

(* -------------------------------- C2 ----------------------------------- *)

\* C2: with max_chars > 0, a chunk of more than one word has
\* len(text) <= max_chars, and a chunk whose text exceeds max_chars is one
\* word whose own trimmed text is longer than max_chars.
C2_LengthBound ==
    max_chars > 0 =>
      \A k \in Chunks :
        /\ ManyWords(k) => Len(subtitles[k].text) <= max_chars
        /\ Len(subtitles[k].text) > max_chars =>
             /\ FirstOf(k) = LastOf(k)
             /\ Len(Trimmed(FirstOf(k))) > max_chars

C2_Witness ==
    /\ max_chars > 0
    /\ \E k \in Chunks : ManyWords(k) /\ Len(subtitles[k].text) = max_chars
    /\ \E k \in Chunks : Len(subtitles[k].text) > max_chars

(* -------------------------------- C3 ----------------------------------- *)

\* C3: with max_duration > 0 and start <= end per word, a chunk of more than
\* one word spans at most max_duration; only a one-word chunk may span more.
C3_DurationBound ==
    max_duration > 0 =>
      \A k \in Chunks :
        /\ ManyWords(k) => subtitles[k].end - subtitles[k].start <= max_duration
        /\ subtitles[k].end - subtitles[k].start > max_duration =>
             FirstOf(k) = LastOf(k)

C3_Witness ==
    /\ max_duration > 0
    /\ \E k \in Chunks :
         ManyWords(k) /\ subtitles[k].end - subtitles[k].start = max_duration
    /\ \E k \in Chunks : subtitles[k].end - subtitles[k].start > max_duration

(* -------------------------------- C4 ----------------------------------- *)

\* The words that opened a chunk, emitted or still open.
FirstWords ==
    { FirstOf(k) : k \in Chunks }
      \cup (IF chunk_start_time # None THEN {chunk_first} ELSE {})

ClosedByPunctuationAt(j) ==
    \E k \in Chunks : closed_by[k] = "punctuation" /\ LastOf(k) = j

\* C4: a chunk is closed by punctuation at word j exactly when j was
\* absorbed into an already-open chunk, its trimmed text ends in a character
\* of punctuation_breaks and it is not the last word; the chunk is emitted
\* with j as its last word (and j's end as its end), no chunk is left open,
\* and word j+1 opens a fresh chunk.  A word that opens a chunk does not
\* close it by punctuation.
C4_PunctuationCut ==
    /\ \A j \in 1..i :
         ClosedByPunctuationAt(j) <=>
           (j \notin FirstWords /\ EndsInPunctuation(j) /\ j < NumWords)
    /\ \A k \in Chunks :
         closed_by[k] = "punctuation" =>
           /\ subtitles[k].end = words_list[LastOf(k)].end
           /\ LastOf(k) + 1 <= i => LastOf(k) + 1 \in FirstWords
    /\ (pc = "loop" /\ i >= 1) =>
         (chunk_start_time = None <=> ClosedByPunctuationAt(i))
    /\ pc = "flush" => chunk_start_time # None

\* A word ending in punctuation opened a chunk without closing it, the next
\* such word was absorbed and closed it, and the word after it opened a
\* fresh chunk although a silence gap preceded it.
C4_Witness ==
    /\ pc = "done"
    /\ \E k \in Chunks :
         /\ closed_by[k] = "punctuation"
         /\ EndsInPunctuation(FirstOf(k))
         /\ Gap(LastOf(k)) >= silence_threshold
         /\ silence_threshold >= 0

(* -------------------------------- C5 ----------------------------------- *)

C6_InvalidConfigurationRejected ==
    ~ValidConfig => (i = 0 /\ subtitles = <<>> /\ srt_file = None)

(* -------------------------------- C7 ----------------------------------- *)

\* C7: a chunk's start is the start of its first word and its end the end of
\* its last word; with words in non-decreasing start order the chunks'
\* starts are non-decreasing.
C7_TimestampsFromWords ==
    /\ \A k \in Chunks :
         /\ subtitles[k].start = words_list[FirstOf(k)].start
         /\ subtitles[k].end = words_list[LastOf(k)].end
    /\ NonDecreasingStarts =>
         \A k \in Chunks :
           k < Len(subtitles) => subtitles[k].start <= subtitles[k + 1].start

\* Two chunks, the second starting later than the first word ended, the
\* first of several words.
C7_Witness ==
    /\ Finished /\ NonDecreasingStarts
    /\ Len(subtitles) = 2
    /\ ManyWords(1)
    /\ subtitles[2].start > subtitles[1].end
    /\ subtitles[1].end > subtitles[1].start

(* -------------------------------- C8 ----------------------------------- *)

\* The words of the open chunk are chunk_first..i.
SpansOfChunks ==
    { assigned[k] : k \in Chunks }
      \cup (IF chunk_start_time # None /\ i >= 1 THEN {<<chunk_first, i>>}
            ELSE {})

EmittedWithLastWord == { k \in Chunks : LastOf(k) = NumWords }

\* C9 as stated: the loop ends with a chunk open, and the chunk containing
\* the last word is emitted by the final flush, by no other path, once
\* (stated for calls that meet the segmenter's preconditions).
C9_Original ==
    /\ pc = "flush" => chunk_start_time # None
    /\ (Finished /\ Preconditions) =>
         /\ Cardinality(EmittedWithLastWord) = 1
         /\ \A k \in EmittedWithLastWord : closed_by[k] = "flush"

\* C9 amended: the loop ends with a chunk open that holds the last word;
\* when its text is non-empty the final flush emits it, by no other path,
\* once; when its text is empty (all its words trim to nothing) it is not
\* emitted at all.
C9_NoDanglingChunk ==
    /\ pc = "flush" =>
         (chunk_start_time # None /\ chunk_first \in 1..NumWords /\ i = NumWords)
    /\ Finished =>
         IF strip(chunk_text) # <<>>
           THEN /\ EmittedWithLastWord = {Len(subtitles)}
                /\ closed_by[Len(subtitles)] = "flush"
                /\ assigned[Len(subtitles)] = <<chunk_first, NumWords>>
                /\ Cardinality({ k \in Chunks : closed_by[k] = "flush" }) = 1
           ELSE /\ EmittedWithLastWord = {}
                /\ \A k \in Chunks : closed_by[k] # "flush"

\* The last word ends in punctuation and was absorbed; the flush emitted it.
C9_Witness ==
    /\ Finished
    /\ NumWords >= 2
    /\ EndsInPunctuation(NumWords)
    /\ Len(subtitles) >= 1
    /\ ManyWords(Len(subtitles))
    /\ closed_by[Len(subtitles)] = "flush"

(* -------------------------------- C10 ---------------------------------- *)

\* C10: every chunk appended to the output, by any path, has non-empty
\* trimmed text (stated for calls that meet the segmenter's preconditions).
C10_NoEmptySubtitle ==
    Preconditions => \A k \in Chunks : strip(subtitles[k].text) # <<>>

====
